---- MODULE Spec2Model ----
(***************************************************************************)
(* The estimate mail API of shray-jayn/MailServer as a state machine.      *)
(*                                                                         *)
(* The repository holds two entry points for the same HTTP surface:        *)
(*   src/index.js          the two sends are awaited one after the other,  *)
(*                         every send failure answers 500                  *)
(*   src/unnamed/part_000  both sends are started, each raced against a    *)
(*                         timer by sendWithTimeout and joined by          *)
(*                         Promise.all; failures answer 502 / 504          *)
(* The variable impl says which of the two is the running process.         *)
(*                                                                         *)
(* One request at a time travels through the middleware chain (cors, the   *)
(* /api/ rate limiter, the route).  Time is counted in seconds from the    *)
(* moment the two sends of the request are started.  The model covers one  *)
(* rate-limit window and one client IP.  JSON values are tagged records;   *)
(* strings are tuples of characters.                                       *)
(*                                                                         *)
(* Left out: bodies that express.json refuses, OPTIONS preflights, the     *)
(* optional fields type and message and the text of the two mails, and     *)
(* what the relay does with a send after its sendWithTimeout timed out.    *)
(* The transport is nodemailer's: every mail it accepts gets a message id  *)
(* of its own, and with the timeouts of part_000 a send rejects once the   *)
(* relay has been silent for socketTimeout seconds.                        *)
(***************************************************************************)
EXTENDS Integers, Sequences, FiniteSets, TLC

VARIABLES impl, env, hits, arrived, anyFailed, req

vars == <<impl, env, hits, arrived, anyFailed, req>>

\* Requests that reach the rate limiter, in Spec.
MaxArrivals == 2
\* Requests that reach the rate limiter, in SpecLimit: past max.
WindowArrivals == 22

\* rateLimit({ max: 20 })
max == 20
\* connectionTimeout / greetingTimeout / socketTimeout: 5000 ms, in seconds.
socketTimeout == 5
\* sendWithTimeout(.., 7000), in seconds.
sendTimeout == 7

(***************************************************************************)
(* JavaScript values.                                                      *)
(***************************************************************************)
Undefined == [t |-> "undefined"]
Null == [t |-> "null"]
Str(s) == [t |-> "string", v |-> s]
Bool(b) == [t |-> "boolean", v |-> b]

\* !x is false exactly for a non-empty string (among the values modelled).
Truthy(x) == x.t = "string" /\ x.v # <<>>

\* a || b
Or(a, b) == IF Truthy(a) THEN a ELSE b

(***************************************************************************)
(* String helpers: split(','), trim(), filter(Boolean).                    *)
(***************************************************************************)
RECURSIVE Split(_)
Split(s) ==
    IF \A i \in 1..Len(s) : s[i] # ","
    THEN <<s>>
    ELSE LET i == CHOOSE j \in 1..Len(s) :
                      s[j] = "," /\ \A m \in 1..(j - 1) : s[m] # ","
         IN  <<SubSeq(s, 1, i - 1)>> \o Split(SubSeq(s, i + 1, Len(s)))

RECURSIVE Trim(_)
Trim(s) ==
    IF s = <<>> THEN s
    ELSE IF s[1] = " " THEN Trim(Tail(s))
    ELSE IF s[Len(s)] = " " THEN Trim(SubSeq(s, 1, Len(s) - 1))
    ELSE s

\* process.env.ALLOWED_ORIGIN = "a, b ,"
ALLOWED_ORIGIN == <<"a", ",", " ", "b", " ", ",">>

\* (process.env.ALLOWED_ORIGIN || '').split(',').map(trim).filter(Boolean)
allow ==
    LET parts == Split(ALLOWED_ORIGIN)
    IN  {Trim(parts[i]) : i \in 1..Len(parts)} \ {<<>>}

\* A faulty origin callback: startsWith in place of an exact match.
CorsAllowedPrefix(origin) ==
    \/ ~Truthy(origin)
    \/ \E a \in allow :
           Len(a) <= Len(origin.v) /\ SubSeq(origin.v, 1, Len(a)) = a

\* The cors origin callback: cb(null, true) or cb(new Error(..)).
CorsAllowed(origin) == ~Truthy(origin) \/ origin.v \in allow

(***************************************************************************)
(* isEmail: /^[^\s@]+@[^\s@]+\.[^\s@]+$/                                   *)
(***************************************************************************)
NoSpaceAt(s) == \A i \in 1..Len(s) : s[i] \notin {" ", "@"}

\* A faulty pattern: the dot of the domain is not asked for, /^[^\s@]+@[^\s@]+$/.
isEmailNoDot(v) ==
    \E i \in 1..Len(v) :
        /\ v[i] = "@"
        /\ 1 < i
        /\ i < Len(v)
        /\ NoSpaceAt(SubSeq(v, 1, i - 1))
        /\ NoSpaceAt(SubSeq(v, i + 1, Len(v)))

isEmail(v) ==
    \E i \in 1..Len(v) : \E j \in 1..Len(v) :
        /\ v[i] = "@"
        /\ v[j] = "."
        /\ 1 < i
        /\ i + 1 < j
        /\ j < Len(v)
        /\ NoSpaceAt(SubSeq(v, 1, i - 1))
        /\ NoSpaceAt(SubSeq(v, i + 1, j - 1))
        /\ NoSpaceAt(SubSeq(v, j + 1, Len(v)))

(***************************************************************************)
(* Requests.                                                               *)
(***************************************************************************)
Kinds == {"internal", "autoresp"}

Emails ==
    { Undefined, Str(<<>>),
      Str(<<"a", "@", "b", ".", "c">>),
      Str(<<"a", "b", ".", "c">>),
      Str(<<"a", "@", "b">>),
      Str(<<"a", "@", "b", ".">>),
      Str(<<"a", " ", "@", "b", ".", "c">>),
      Str(<<"a", "@", ".", ".", "c">>) }

Obj(n, e, p, c) == [t |-> "object", name |-> n, email |-> e, phone |-> p, city |-> c]

GoodEmail == Str(<<"a", "@", "b", ".", "c">>)
X == Str(<<"x">>)

\* req.body: absent, or an object with any of the four fields.
Bodies ==
    {Undefined}
    \cup {Obj(X, e, X, X) : e \in Emails}
    \cup {Obj(n, GoodEmail, X, X) : n \in {Undefined, Str(<<>>)}}
    \cup {Obj(X, GoodEmail, p, X) : p \in {Undefined, Str(<<>>)}}
    \cup {Obj(X, GoodEmail, X, c) : c \in {Undefined, Str(<<>>)}}
    \cup {Obj(Undefined, Undefined, Undefined, Undefined),
          Obj(Undefined, Str(<<"a", "b">>), X, X)}

\* The Origin header: absent, empty, or a string.
Origins == {Undefined, Str(<<>>), Str(<<"b">>), Str(<<"c">>), Str(<<"a", "b">>)}

Paths == {"/health", "/api/send-estimate"}

\* const { name, email, phone, city } = req.body || {}
Field(body, k) == IF body.t = "object" THEN body[k] ELSE Undefined

NoResp ==
    [kind |-> "none", status |-> 0, ok |-> Undefined, error |-> Undefined,
     note |-> Undefined, submittedAt |-> Undefined, time |-> Undefined,
     leadId |-> Undefined, autoId |-> Undefined]

\* res.status(s).json({ ok, error })
JsonError(s, e) ==
    [NoResp EXCEPT !.kind = "json", !.status = s, !.ok = Bool(FALSE),
                   !.error = Str(e)]

nowISO == Str(<<"now">>)

NoSend == [st |-> "none", idle |-> 0, info |-> Undefined]
NoSwt == [timer |-> "none", st |-> "none", val |-> Undefined]

Idle ==
    [path |-> "", origin |-> Undefined, body |-> Undefined, ordinal |-> 0,
     clean |-> TRUE, blockedBy |-> "none", handler |-> FALSE,
     send |-> [k \in Kinds |-> NoSend], swt |-> [k \in Kinds |-> NoSwt],
     all |-> "none", elapsed |-> 0, relayActed |-> FALSE,
     resp |-> NoResp, finished |-> FALSE]

(***************************************************************************)
(* The route handlers.                                                     *)
(***************************************************************************)
\* A faulty presence test: city is not looked at.
MissingFieldsNoCity(body) ==
    \/ ~Truthy(Field(body, "name"))
    \/ ~Truthy(Field(body, "email"))
    \/ ~Truthy(Field(body, "phone"))

\* if (!name || !email || !phone || !city)
MissingFields(body) ==
    \/ ~Truthy(Field(body, "name"))
    \/ ~Truthy(Field(body, "email"))
    \/ ~Truthy(Field(body, "phone"))
    \/ ~Truthy(Field(body, "city"))

\* process.env.DISABLE_EMAIL === 'true'
EmailDisabled == env.DISABLE_EMAIL = "true"

\* res.status(200).json({ ok: true, note: 'email disabled', submittedAt })
DisabledBody ==
    [NoResp EXCEPT !.kind = "json", !.status = 200, !.ok = Bool(TRUE),
                   !.note = Str(<<"email disabled">>), !.submittedAt = nowISO]

\* res.json({ ok: true, time: nowISO() })
HealthBody ==
    [NoResp EXCEPT !.kind = "json", !.status = 200, !.ok = Bool(TRUE),
                   !.time = nowISO]

\* transporter.sendMail(..): the promise of one send, not yet settled.
SendMail == [st |-> "pending", idle |-> 0, info |-> Undefined]

\* sendWithTimeout(p, 7000) up to its await: the timer is armed.
SendWithTimeout == [timer |-> "armed", st |-> "pending", val |-> Undefined]

\* The message id the transport gives the k-th mail of request n.
MessageIdOf(n, k) == Str(<<"id", ToString(n), k>>)

\* info?.messageId
MessageId(info) == IF info.t = "info" THEN info.messageId ELSE Undefined

\* part_000: the handler up to its first await.
ServerHandler(r) ==
    LET h == [r EXCEPT !.handler = TRUE]
    IN  IF MissingFields(r.body)
        THEN [h EXCEPT !.resp = JsonError(400, <<"MISSING_FIELDS">>)]
        ELSE IF ~isEmail(Field(r.body, "email").v)
        THEN [h EXCEPT !.resp = JsonError(400, <<"INVALID_EMAIL">>)]
        ELSE IF EmailDisabled
        THEN [h EXCEPT !.resp = DisabledBody]
        ELSE [h EXCEPT !.send = [k \in Kinds |-> SendMail],
                       !.swt = [k \in Kinds |-> SendWithTimeout],
                       !.all = "pending"]

\* index.js: the handler up to its first await.
IndexHandler(r) ==
    LET h == [r EXCEPT !.handler = TRUE]
    IN  IF MissingFields(r.body)
        THEN [h EXCEPT !.resp = JsonError(400, <<"MISSING_FIELDS">>)]
        ELSE IF ~isEmail(Field(r.body, "email").v)
        THEN [h EXCEPT !.resp = JsonError(400, <<"INVALID_EMAIL">>)]
        ELSE [h EXCEPT !.send["internal"] = SendMail]

\* part_000: const code = err?.message === 'SMTP_TIMEOUT' ? 504 : 502
ServerCatch(err) ==
    JsonError(IF err = Str(<<"SMTP_TIMEOUT">>) THEN 504 ELSE 502,
              <<"MAIL_SEND_FAILED">>)

\* index.js: res.status(500).json({ ok: false, error: 'MAIL_SEND_FAILED' })
IndexCatch(err) == JsonError(500, <<"MAIL_SEND_FAILED">>)

\* A faulty success body: autoId copied from the internal notice.
ServerSuccessLeadTwice(internal, autoresp) ==
    [NoResp EXCEPT !.kind = "json", !.status = 200, !.ok = Bool(TRUE),
                   !.leadId = Or(MessageId(internal), Null),
                   !.autoId = Or(MessageId(internal), Null)]

\* part_000: res.json({ ok, leadId: internal?.messageId || null, autoId: .. })
ServerSuccess(internal, autoresp) ==
    [NoResp EXCEPT !.kind = "json", !.status = 200, !.ok = Bool(TRUE),
                   !.leadId = Or(MessageId(internal), Null),
                   !.autoId = Or(MessageId(autoresp), Null)]

\* index.js: res.json({ ok, leadId: internal.messageId, autoId: .. })
IndexSuccess(internal, autoresp) ==
    [NoResp EXCEPT !.kind = "json", !.status = 200, !.ok = Bool(TRUE),
                   !.leadId = internal.messageId,
                   !.autoId = autoresp.messageId]

\* A faulty sendWithTimeout: no finally, the timer is left armed.
SwtSettleNoClear(sw, st, val) == [sw EXCEPT !.st = st, !.val = val]

\* sendWithTimeout settling: the race is decided, finally { clearTimeout(to) }.
SwtSettle(sw, st, val) ==
    [sw EXCEPT !.st = st, !.val = val,
               !.timer = IF @ = "armed" THEN "cleared" ELSE @]

\* Promise.all over the two sendWithTimeout promises, after that of k settled:
\* the first rejection rejects it, the second fulfilment fulfils it.  The
\* handler's continuation (the response) runs with it.
PromiseAll(r, k) ==
    IF r.all # "pending" THEN r
    ELSE IF r.swt[k].st = "rejected"
    THEN [r EXCEPT !.all = "rejected", !.resp = ServerCatch(r.swt[k].val)]
    ELSE IF \A j \in Kinds : r.swt[j].st = "resolved"
    THEN [r EXCEPT !.all = "fulfilled",
                   !.resp = ServerSuccess(r.swt["internal"].val,
                                          r.swt["autoresp"].val)]
    ELSE r

\* A send whose outcome the handler still waits for.
Live(r, k) ==
    /\ r.send[k].st = "pending"
    /\ impl = "server" => r.swt[k].st = "pending"

\* The request is over: answered, flushed, and nothing of it is pending.
Quiescent(r) ==
    \/ r.path = ""
    \/ /\ r.finished
       /\ \A k \in Kinds : ~Live(r, k) /\ r.swt[k].timer # "armed"

(***************************************************************************)
(* Middleware.                                                             *)
(***************************************************************************)
\* A faulty limiter: refuses from the max-th hit on.
RateLimitedAtMax(totalHits) == totalHits >= max

\* express-rate-limit: the request is refused when totalHits > max.
RateLimited(totalHits) == totalHits > max

\* skipFailedRequests: true (part_000 only)
skipFailedRequests == impl = "server"

\* The default error handler's answer to cb(new Error('CORS blocked ..')).
CorsError == [NoResp EXCEPT !.kind = "error", !.status = 500]

\* express-rate-limit's answer.
TooManyRequests == [NoResp EXCEPT !.kind = "limit", !.status = 429]

Init ==
    /\ impl \in {"index", "server"}
    /\ env \in [DISABLE_EMAIL : {"true", "false"}]
    /\ hits = 0
    /\ arrived = 0
    /\ anyFailed = FALSE
    /\ req = Idle

\* A request arrives and runs through cors, the limiter and the route up to
\* the handler's first await.
Arrive(path, origin, body) ==
    /\ Quiescent(req)
    /\ path = "/health" => body = Undefined
    /\ LET r0 == [Idle EXCEPT !.path = path, !.origin = origin, !.body = body]
       IN  IF ~CorsAllowed(origin)
           THEN /\ req' = [r0 EXCEPT !.blockedBy = "cors", !.resp = CorsError]
                /\ UNCHANGED <<hits, arrived>>
           ELSE IF path = "/health"
           THEN /\ req' = [r0 EXCEPT !.handler = TRUE, !.resp = HealthBody]
                /\ UNCHANGED <<hits, arrived>>
           ELSE /\ arrived' = arrived + 1
                /\ hits' = hits + 1
                /\ LET r1 == [r0 EXCEPT !.ordinal = arrived + 1,
                                        !.clean = ~anyFailed]
                   IN  req' = IF RateLimited(hits + 1)
                              THEN [r1 EXCEPT !.blockedBy = "limiter",
                                              !.resp = TooManyRequests]
                              ELSE IF impl = "server"
                              THEN ServerHandler(r1)
                              ELSE IndexHandler(r1)
    /\ UNCHANGED <<impl, env, anyFailed>>

\* The relay (or the connection to it) shows activity for send k: the
\* transport's connection / greeting / socket timeout starts over.
RelayProgress(k) ==
    /\ impl = "server"
    /\ Live(req, k)
    /\ req' = [req EXCEPT !.send[k].idle = 0, !.relayActed = TRUE]
    /\ UNCHANGED <<impl, env, hits, arrived, anyFailed>>

\* part_000: the outcome of send k reaches its sendWithTimeout and the join.
ServerSettle(r, k, st, val) ==
    PromiseAll([r EXCEPT !.swt[k] = SwtSettle(@, st, val)], k)

\* index.js: the awaited send k resolved.
IndexResolved(r, k) ==
    IF k = "internal"
    THEN [r EXCEPT !.send["autoresp"] = SendMail]
    ELSE [r EXCEPT !.resp = IndexSuccess(r.send["internal"].info,
                                         r.send["autoresp"].info)]

\* The relay accepts mail k: sendMail resolves with its info.
RelayAccept(k) ==
    /\ Live(req, k)
    /\ LET info == [t |-> "info", messageId |-> MessageIdOf(req.ordinal, k)]
           r1 == [req EXCEPT !.send[k].st = "resolved", !.send[k].info = info,
                             !.relayActed = TRUE]
       IN  req' = IF impl = "server"
                  THEN ServerSettle(r1, k, "resolved", info)
                  ELSE IndexResolved(r1, k)
    /\ UNCHANGED <<impl, env, hits, arrived, anyFailed>>

\* The relay refuses (connection, auth or protocol error): sendMail rejects.
RelayReject(k) ==
    /\ Live(req, k)
    /\ LET err == Str(<<"Invalid login">>)
           r1 == [req EXCEPT !.send[k].st = "rejected", !.relayActed = TRUE]
       IN  req' = IF impl = "server"
                  THEN ServerSettle(r1, k, "rejected", err)
                  ELSE [r1 EXCEPT !.resp = IndexCatch(err)]
    /\ UNCHANGED <<impl, env, hits, arrived, anyFailed>>

\* part_000: the transport gives up on send k after socketTimeout seconds
\* without activity and sendMail rejects with its own timeout error.
TransportTimeout(k) ==
    /\ impl = "server"
    /\ Live(req, k)
    /\ req.send[k].idle >= socketTimeout
    /\ req' = ServerSettle([req EXCEPT !.send[k].st = "rejected"], k,
                           "rejected", Str(<<"Connection timeout">>))
    /\ UNCHANGED <<impl, env, hits, arrived, anyFailed>>

\* part_000: the timer of sendWithTimeout k fires: rej(new Error('SMTP_TIMEOUT')).
TimerFire(k) ==
    /\ req.swt[k].timer = "armed"
    /\ req.elapsed >= sendTimeout
    /\ LET r1 == [req EXCEPT !.swt[k].timer = "fired"]
       IN  req' = IF req.swt[k].st = "pending"
                  THEN ServerSettle(r1, k, "rejected", Str(<<"SMTP_TIMEOUT">>))
                  ELSE r1
    /\ UNCHANGED <<impl, env, hits, arrived, anyFailed>>

\* One second passes, unless a timeout that is due has yet to run.
Tick ==
    /\ \E k \in Kinds : req.swt[k].timer = "armed"
    /\ req.elapsed < sendTimeout
    /\ \A k \in Kinds : Live(req, k) => req.send[k].idle < socketTimeout
    /\ req' = [req EXCEPT
                 !.elapsed = @ + 1,
                 !.send = [k \in Kinds |->
                             IF Live(req, k)
                             THEN [req.send[k] EXCEPT !.idle = @ + 1]
                             ELSE req.send[k]]]
    /\ UNCHANGED <<impl, env, hits, arrived, anyFailed>>

\* The response is flushed ('finish'): with skipFailedRequests the limiter
\* takes a counted request with an error status out of the count again.
Finish ==
    /\ req.resp.kind # "none"
    /\ ~req.finished
    /\ req' = [req EXCEPT !.finished = TRUE]
    /\ LET failed == req.ordinal > 0 /\ req.resp.status >= 400
       IN  /\ hits' = IF skipFailedRequests /\ failed /\ hits > 0
                      THEN hits - 1 ELSE hits
           /\ anyFailed' = (anyFailed \/ failed)
    /\ UNCHANGED <<impl, env, arrived>>

Next ==
    \/ \E p \in Paths, o \in Origins, b \in Bodies :
           arrived < MaxArrivals /\ Arrive(p, o, b)
    \/ \E k \in Kinds : RelayProgress(k)
    \/ \E k \in Kinds : RelayAccept(k)
    \/ \E k \in Kinds : RelayReject(k)
    \/ \E k \in Kinds : TransportTimeout(k)
    \/ \E k \in Kinds : TimerFire(k)
    \/ Tick
    \/ Finish

Spec == Init /\ [][Next]_vars

(***************************************************************************)
(* A whole rate-limit window: requests with or without a sound body, and a *)
(* relay that answers each send before a second has passed, so that no     *)
(* timeout becomes due.                                                    *)
(***************************************************************************)
LimitBodies == {Undefined, Obj(X, GoodEmail, X, X)}

NextLimit ==
    \/ \E p \in Paths, o \in Origins, b \in LimitBodies :
           arrived < WindowArrivals /\ Arrive(p, o, b)
    \/ \E k \in Kinds : RelayAccept(k)
    \/ \E k \in Kinds : RelayReject(k)
    \/ Finish

SpecLimit == Init /\ [][NextLimit]_vars

(***************************************************************************)
(* Vocabulary of the properties.                                           *)
(***************************************************************************)
Required == {"name", "email", "phone", "city"}

\* The request in hand is a POST /api/send-estimate that the route handler got.
Handled == req.path = "/api/send-estimate" /\ req.handler

Answered == req.resp.kind # "none"

NoSendAttempted == \A k \in Kinds : req.send[k].st = "none"

\* The local@domain.tld shape, said without the pattern: one @, no blank,
\* something before the @, and after it a dot with something on either side.
WellFormed(v) ==
    /\ Cardinality({i \in 1..Len(v) : v[i] = "@"}) = 1
    /\ \A i \in 1..Len(v) : v[i] # " "
    /\ LET at == CHOOSE i \in 1..Len(v) : v[i] = "@"
       IN  /\ at > 1
           /\ \E j \in (at + 2)..(Len(v) - 1) : v[j] = "."

\* The four required fields are non-empty strings and the email is well formed.
Validated ==
    /\ \A f \in Required : Truthy(Field(req.body, f))
    /\ WellFormed(Field(req.body, "email").v)

MailSendFailed(status) == JsonError(status, <<"MAIL_SEND_FAILED">>)

\* The entries of the configured allow-list "a, b ,".
AllowList == {<<"a">>, <<"b">>}

(***************************************************************************)
(* C1                                                                      *)
(***************************************************************************)
\* C1: a send-estimate request handled with any of name, email, phone, city
\* absent (or with no body at all) is answered 400 MISSING_FIELDS, and at no
\* point of the request is a send attempted.
C1_MissingFields ==
    (Handled /\ \E f \in Required : Field(req.body, f) = Undefined)
        => /\ req.resp = JsonError(400, <<"MISSING_FIELDS">>)
           /\ NoSendAttempted

\* A request with no body at all, answered and flushed.
C1_Witness ==
    /\ Handled
    /\ req.body = Undefined
    /\ req.resp.status = 400
    /\ req.finished

(***************************************************************************)
(* C2                                                                      *)
(***************************************************************************)
\* C2 as stated: all four fields present, the email not of the pattern: the
\* answer is 400 INVALID_EMAIL and no send is attempted.
C2_AsStated ==
    (/\ Handled
     /\ \A f \in Required : Field(req.body, f) # Undefined
     /\ ~WellFormed(Field(req.body, "email").v))
        => /\ req.resp = JsonError(400, <<"INVALID_EMAIL">>)
           /\ NoSendAttempted

\* C2 amended: all four fields present and non-empty, the email not of the
\* pattern: the answer is 400 INVALID_EMAIL and no send is ever attempted.
C2_InvalidEmail ==
    (/\ Handled
     /\ \A f \in Required : Truthy(Field(req.body, f))
     /\ ~WellFormed(Field(req.body, "email").v))
        => /\ req.resp = JsonError(400, <<"INVALID_EMAIL">>)
           /\ NoSendAttempted

\* An email with an @ and no dot in its domain, refused.
C2_Witness ==
    /\ Handled
    /\ Field(req.body, "email") = Str(<<"a", "@", "b">>)
    /\ req.resp = JsonError(400, <<"INVALID_EMAIL">>)

(***************************************************************************)
(* C3                                                                      *)
(***************************************************************************)
\* C3: in part_000, a validated request whose two sends were started and
\* whose relay never showed any activity is answered with 504.
C3_SilentRelay504 ==
    (/\ impl = "server"
     /\ Handled
     /\ req.all # "none"
     /\ ~req.relayActed
     /\ Answered)
        => req.resp.status = 504

(***************************************************************************)
(* C4                                                                      *)
(***************************************************************************)
\* C4: a validated request whose sending failed is answered exactly
\* {ok: false, error: MAIL_SEND_FAILED} with status 504 or 502.
C4_FailureStatus ==
    (/\ Handled
     /\ \E k \in Kinds : req.send[k].st = "rejected" \/ req.swt[k].st = "rejected"
     /\ Answered)
        => \/ req.resp = MailSendFailed(504)
           \/ req.resp = MailSendFailed(502)

\* C4 for part_000 alone: 504 when the join was rejected by a timer, 502
\* when it was rejected by the transport.
C4_ServerOnly ==
    (/\ impl = "server"
     /\ Handled
     /\ req.all = "rejected")
        => \/ /\ req.resp = MailSendFailed(504)
              /\ \E k \in Kinds : req.swt[k].timer = "fired"
           \/ /\ req.resp = MailSendFailed(502)
              /\ \E k \in Kinds : req.send[k].st = "rejected"

(***************************************************************************)
(* C5                                                                      *)
(***************************************************************************)
\* C5: with DISABLE_EMAIL set, a request that passes validation is answered
\* 200 {ok: true, note: 'email disabled', submittedAt} and no send is made.
C5_DisabledNoSend ==
    (Handled /\ Validated /\ EmailDisabled)
        => /\ req.resp = DisabledBody
           /\ NoSendAttempted

\* C5 for part_000 alone.
C5_ServerOnly == impl = "server" => C5_DisabledNoSend

(***************************************************************************)
(* C6                                                                      *)
(***************************************************************************)
\* C6: a 200 answer with leadId and autoId is given only after both sends
\* resolved, and carries their two message ids, distinct and non-empty.
C6_BothIds ==
    (/\ Handled
     /\ req.resp.status = 200
     /\ req.resp.note = Undefined)
        => /\ \A k \in Kinds : req.send[k].st = "resolved"
           /\ req.resp.leadId = req.send["internal"].info.messageId
           /\ req.resp.autoId = req.send["autoresp"].info.messageId
           /\ Truthy(req.resp.leadId)
           /\ Truthy(req.resp.autoId)
           /\ req.resp.leadId # req.resp.autoId

\* part_000 answered 200 with the two ids.
C6_Witness ==
    /\ impl = "server"
    /\ Handled
    /\ req.resp.status = 200
    /\ req.all = "fulfilled"
    /\ Truthy(req.resp.leadId)

(***************************************************************************)
(* C7                                                                      *)
(***************************************************************************)
\* C7 as stated: of the requests that reach the /api/ limiter, the 20th is
\* let through and the 21st is refused, whatever became of the first 20.
C7_AsStated ==
    /\ req.ordinal = max => req.blockedBy # "limiter"
    /\ req.ordinal = max + 1 => req.blockedBy = "limiter"

\* C7 amended: the 20th is let through; the 21st is refused when, under
\* skipFailedRequests (part_000), none of the first 20 has finished with an
\* error status; without skipFailedRequests (index.js) it is always refused.
C7_RateLimit ==
    /\ (req.ordinal > 0 /\ req.ordinal <= max) => req.blockedBy # "limiter"
    /\ (req.ordinal = max + 1 /\ (skipFailedRequests => req.clean))
           => /\ req.blockedBy = "limiter"
              /\ req.resp = TooManyRequests
              /\ ~req.handler

\* The 21st request refused in part_000 after 20 requests that succeeded.
C7_Witness ==
    /\ impl = "server"
    /\ req.ordinal = max + 1
    /\ req.clean
    /\ req.blockedBy = "limiter"

(***************************************************************************)
(* C8                                                                      *)
(***************************************************************************)
\* C8 as stated: an Origin header that is present and not on the allow-list
\* fails the request before the handler; without an Origin header the request
\* passes cors and reaches the handler.
C8_AsStated ==
    req.path # ""
        => /\ (req.origin # Undefined /\ req.origin.v \notin AllowList)
                  => (req.blockedBy = "cors" /\ ~req.handler /\ NoSendAttempted)
           /\ req.origin = Undefined
                  => (req.blockedBy # "cors" /\ req.handler)

\* C8 amended: a non-empty Origin that is not on the allow-list fails the
\* request with the cors error before the limiter and the handler; a request
\* with no (or an empty) Origin passes cors and reaches the handler unless the
\* /api/ limiter refuses it.
C8_Cors ==
    req.path # ""
        => /\ (Truthy(req.origin) /\ req.origin.v \notin AllowList)
                  => /\ req.blockedBy = "cors"
                     /\ req.resp = CorsError
                     /\ ~req.handler
                     /\ req.ordinal = 0
                     /\ NoSendAttempted
           /\ ~Truthy(req.origin)
                  => /\ req.blockedBy # "cors"
                     /\ req.handler \/ req.blockedBy = "limiter"

\* An origin that only starts like an allowed one, refused.
C8_Witness ==
    /\ req.origin = Str(<<"a", "b">>)
    /\ req.blockedBy = "cors"
    /\ req.finished

(***************************************************************************)
(* C9                                                                      *)
(***************************************************************************)
\* C9: for a validated request with sending enabled both sends are started
\* before either is awaited: from the handler's first await on, both exist.
C9_BothStarted ==
    (Handled /\ Validated /\ ~EmailDisabled)
        => \A k \in Kinds : req.send[k].st # "none"

\* C9 for part_000 alone.
C9_ServerOnly == impl = "server" => C9_BothStarted

(***************************************************************************)
(* C10                                                                     *)
(***************************************************************************)
\* C10: once a sendWithTimeout has settled its timer is no longer pending,
\* and a timer that fired is the one that decided the race.
C10_TimerReleased ==
    \A k \in Kinds :
        /\ req.swt[k].st \in {"resolved", "rejected"} => req.swt[k].timer # "armed"
        /\ req.swt[k].timer = "fired"
               => /\ req.swt[k].st = "rejected"
                  /\ req.swt[k].val = Str(<<"SMTP_TIMEOUT">>)

\* One send won its race (timer cleared), the other lost it to its timer.
C10_Witness ==
    \E k \in Kinds : \E j \in Kinds :
        /\ req.swt[k].st = "resolved"
        /\ req.swt[k].timer = "cleared"
        /\ req.swt[j].timer = "fired"

====
